---- MODULE Spec2Model ----
(***************************************************************************)
(* Startup of the admin panel (app/main.py): bootstrap of the admin user   *)
(* in the auth (SQLite) database, construction of the application          *)
(* (Postgres) engine from the environment, schema reflection, resolution   *)
(* of the YAML table configuration into TableConfig descriptors, binding   *)
(* of the tables to the application engine, and serving.                   *)
(*                                                                         *)
(* Names are sequences of characters so that str.lower and str.capitalize  *)
(* are computed, not assumed.  A Python value that may be None is a tagged *)
(* record: None, ListVal(seq), StrVal(string), ColVal(column).             *)
(***************************************************************************)
EXTENDS Integers, Sequences, FiniteSets, TLC

VARIABLES
    pc,            \* position in main()
    startups,      \* number of process starts so far (this one included)
    env,           \* os.environ: [present: set of names, port_numeric: BOOLEAN]
    users,         \* rows of piccolo_user in the auth database (persistent)
    auth_schema,   \* tables that exist in the auth database (persistent)
    authDb,        \* engine each auth table class is bound to
    BASE_CONFIG,   \* admin_config.get("tables"): None or DictVal(mapping)
    schema,        \* tables of the application database, as reflection sees them
    db,            \* the PostgresEngine built by main(), or "unset"
    tables,        \* storage.tables.values(): reflected table classes
    found_tables,  \* handles of found_tables not yet processed by the loop
    admin_tables,  \* the list handed to create_admin
    app,           \* None, or the tables create_admin was called with
    error,         \* the exception that ended main(), or NoError
    user_exists    \* result of the User.exists() query of this start

vars == <<pc, startups, env, users, auth_schema, authDb, BASE_CONFIG, schema,
          db, tables, found_tables, admin_tables, app, error, user_exists>>

----------------------------------------------------------------------------
(* Bounds of the model *)

MaxTables == 2
MaxCols == 2
MaxKeys == 2
MaxListLen == 2
MaxStartups == 2

----------------------------------------------------------------------------
(* Python values *)

None == [tag |-> "None"]
ListVal(s) == [tag |-> "list", val |-> s]
StrVal(s) == [tag |-> "str", val |-> s]
ColVal(c) == [tag |-> "column", val |-> c]
DictVal(d) == [tag |-> "dict", val |-> d]

NoError == [type |-> "none"]
Raise(type, key, at) == [type |-> type, key |-> key, at |-> at]

Range(s) == {s[i] : i \in DOMAIN s}

Indices(n) == [i \in 1..n |-> i]

----------------------------------------------------------------------------
(* str.lower and str.capitalize on names *)

LowerChar ==
    [c \in {"o", "O", "r", "R", "c", "C", "u", "U"} |->
        CASE c = "O" -> "o" [] c = "R" -> "r" [] c = "C" -> "c"
          [] c = "U" -> "u" [] OTHER -> c]

UpperChar ==
    [c \in {"o", "O", "r", "R", "c", "C", "u", "U"} |->
        CASE c = "o" -> "O" [] c = "r" -> "R" [] c = "c" -> "C"
          [] c = "u" -> "U" [] OTHER -> c]

Lower(name) == [i \in DOMAIN name |-> LowerChar[name[i]]]

Capitalize(name) ==
    [i \in DOMAIN name |-> IF i = 1 THEN UpperChar[name[i]] ELSE LowerChar[name[i]]]

----------------------------------------------------------------------------
(* The environment *)

\* the variables main() reads, in the order it reads them
AdminEnvReads == <<"USERNAME", "PASSWORD", "EMAIL">>

\* an engine configuration that does not read DB_HOST
EngineEnvReadsWithoutHost == <<"DB_NAME", "DB_USER", "DB_PASSWORD", "DB_PORT">>

EngineEnvReads == <<"DB_NAME", "DB_USER", "DB_PASSWORD", "DB_HOST", "DB_PORT">>

EnvVars ==
    {"EMAIL", "USERNAME", "PASSWORD", "DB_NAME", "DB_USER", "DB_PASSWORD",
     "DB_HOST", "DB_PORT"}

\* the names among reads that os.environ[...] raises KeyError for
Missing(reads, present) == SelectSeq(reads, LAMBDA k : k \notin present)

EnvValue ==
    [k \in EnvVars |->
        CASE k = "EMAIL" -> "admin@example.com"
          [] k = "USERNAME" -> "admin"
          [] k = "PASSWORD" -> "secret"
          [] OTHER -> k]

FullEnv == [present |-> EnvVars, port_numeric |-> TRUE]

----------------------------------------------------------------------------
(* The auth database *)

AuthTables == {"User", "Sessions", "AuthenticatorSecret"}

NewAdminUser ==
    [username |-> EnvValue["USERNAME"], password |-> EnvValue["PASSWORD"],
     email |-> EnvValue["EMAIL"], admin |-> TRUE, active |-> TRUE,
     superuser |-> TRUE]

OtherUser ==
    [username |-> "bob", password |-> "pw", email |-> "bob@example.com",
     admin |-> FALSE, active |-> TRUE, superuser |-> FALSE]

EarlierUser ==
    [username |-> "root", password |-> "old", email |-> EnvValue["EMAIL"],
     admin |-> FALSE, active |-> FALSE, superuser |-> FALSE]

InitialUsers == {<<>>, <<OtherUser>>, <<EarlierUser>>, <<OtherUser, EarlierUser>>}

\* a query that never finds the user
UserExistsNever(rows, email) == FALSE

\* line 49: User.exists().where(User.email == email)
UserExists(rows, email) == \E i \in DOMAIN rows : rows[i].email = email

----------------------------------------------------------------------------
(* The table configuration and the reflected schema *)

OptionKeys ==
    {"visible_columns", "visible_filters", "rich_text_columns", "link_column",
     "menu_group"}

\* dict.get(key, None)
Get(options, key) == IF key \in DOMAIN options THEN options[key] ELSE None

\* the options mapping that holds exactly the keys of r whose value is not None
Options(r) == [k \in {k \in OptionKeys : r[k] # None} |-> r[k]]

SeqsUpTo(S, n) == UNION {[1..k -> S] : k \in 0..n}

NoDuplicates(s) == \A i, j \in DOMAIN s : s[i] = s[j] => i = j

ColNames == {"id", "total"}

\* column sequences of a table: column names are unique within a table
ColumnSeqs == {s \in SeqsUpTo(ColNames, MaxCols) : NoDuplicates(s)}

ListChoices == {None} \cup {ListVal(s) : s \in SeqsUpTo(ColNames, MaxListLen)}

LinkChoices == {None} \cup {StrVal(c) : c \in ColNames}

SimpleOptions ==
    {Options([k \in OptionKeys |-> None]),
     Options([visible_columns |-> ListVal(<<"total", "id">>),
              visible_filters |-> None,
              rich_text_columns |-> ListVal(<<"total">>),
              link_column |-> StrVal("id"),
              menu_group |-> StrVal("Shop")])}

AllOptions ==
    {Options(r) : r \in [visible_columns : ListChoices,
                         visible_filters : ListChoices,
                         rich_text_columns : ListChoices,
                         link_column : LinkChoices,
                         menu_group : {None}]} \cup SimpleOptions

\* names of reflected tables: "or", "cu" and the quoted identifier "Or"
TableNameUniverse == {<<"o", "r">>, <<"c", "u">>, <<"O", "r">>}

\* keys of the tables mapping in config.yaml: "Or", "or", "OR", "Cu"
ConfigKeyUniverse == {<<"O", "r">>, <<"o", "r">>, <<"O", "R">>, <<"C", "u">>}

SchemasOver(names, colseqs) ==
    {s \in SeqsUpTo([tablename : names, columns : colseqs], MaxTables) :
        \A i, j \in DOMAIN s : s[i].tablename = s[j].tablename => i = j}

ConfigsOver(keys, options) ==
    UNION {[K -> options] : K \in {K \in SUBSET keys : Cardinality(K) <= MaxKeys}}

----------------------------------------------------------------------------
(* The resolver, lines 75-149 *)

\* line 76
TablesToShow(config) == {Lower(k) : k \in DOMAIN config}

\* a filter that lower-cases the reflected name before the comparison
FoundTablesLowerCased(config, ts) ==
    SelectSeq(Indices(Len(ts)),
              LAMBDA i : Lower(ts[i].tablename) \in TablesToShow(config))

\* lines 77-81: handles of the reflected tables whose tablename is requested
FoundTables(config, ts) ==
    SelectSeq(Indices(Len(ts)), LAMBDA i : ts[i].tablename \in TablesToShow(config))

\* a comprehension that iterates the configured names instead of the columns
FilterColumnsInConfiguredOrder(cols, names) ==
    SelectSeq(names, LAMBDA n : n \in Range(cols))

\* the list comprehension of lines 87-94 (and 99-106, 111-118) once the
\* configured value is a list
FilterColumns(cols, names) == SelectSeq(cols, LAMBDA c : c \in Range(names))

\* one try/except TypeError block: the subscript BASE_CONFIG[capitalize_table_name]
\* and the membership test run once per column, so not at all without columns
ResolveListField(config, t, key) ==
    LET cap == Capitalize(t.tablename) IN
    IF t.columns = <<>> THEN [error |-> NoError, val |-> ListVal(<<>>)]
    ELSE IF cap \notin DOMAIN config
         THEN [error |-> Raise("KeyError", cap, key)]
    ELSE LET v == Get(config[cap], key) IN
         IF v = None THEN [error |-> NoError, val |-> None]
         ELSE [error |-> NoError, val |-> ListVal(FilterColumns(t.columns, v.val))]

\* a lookup that takes element [0] of the table's columns, not of the matches
LinkColumnFirstOfTable(cols, v) ==
    IF cols = <<>> THEN None ELSE ColVal(cols[1])

\* lines 123-130 in a table whose options record was found: the matches, then [0]
LinkColumn(cols, v) ==
    LET matches == SelectSeq(cols, LAMBDA c : StrVal(c) = v) IN
    IF matches = <<>> THEN None ELSE ColVal(matches[1])

\* lines 122-132
ResolveLinkColumn(config, t) ==
    LET cap == Capitalize(t.tablename) IN
    IF t.columns = <<>> THEN [error |-> NoError, val |-> None]
    ELSE IF cap \notin DOMAIN config
         THEN [error |-> Raise("KeyError", cap, "link_column")]
    ELSE [error |-> NoError,
          val |-> LinkColumn(t.columns, Get(config[cap], "link_column"))]

\* lines 134-136
ResolveMenuGroup(config, t) ==
    LET cap == Capitalize(t.tablename) IN
    IF cap \notin DOMAIN config
    THEN [error |-> Raise("KeyError", cap, "menu_group")]
    ELSE [error |-> NoError, val |-> Get(config[cap], "menu_group")]

\* the body of the loop, lines 84-147, for the table with handle h
ResolveTable(config, ts, h) ==
    LET t == ts[h]
        vc == ResolveListField(config, t, "visible_columns")
        vf == ResolveListField(config, t, "visible_filters")
        rt == ResolveListField(config, t, "rich_text_columns")
        lc == ResolveLinkColumn(config, t)
        mg == ResolveMenuGroup(config, t)
    IN  IF vc.error # NoError THEN [error |-> vc.error]
        ELSE IF vf.error # NoError THEN [error |-> vf.error]
        ELSE IF rt.error # NoError THEN [error |-> rt.error]
        ELSE IF lc.error # NoError THEN [error |-> lc.error]
        ELSE IF mg.error # NoError THEN [error |-> mg.error]
        ELSE [error |-> NoError,
              config |-> [kind |-> "TableConfig", table_class |-> h,
                          visible_columns |-> vc.val,
                          visible_filters |-> vf.val,
                          rich_text_columns |-> rt.val,
                          link_column |-> lc.val,
                          menu_group |-> mg.val]]

\* a pass-through that wraps every table in an empty TableConfig
PassThroughWrapped(ts) ==
    [i \in 1..Len(ts) |->
        [kind |-> "TableConfig", table_class |-> i, visible_columns |-> None,
         visible_filters |-> None, rich_text_columns |-> None,
         link_column |-> None, menu_group |-> None]]

\* line 149: storage.tables.values(), the table classes themselves
PassThrough(ts) == [i \in 1..Len(ts) |-> [kind |-> "Table", table |-> i]]

\* the handle of the table an element of admin_tables stands for
TableOf(e) == IF e.kind = "TableConfig" THEN e.table_class ELSE e.table

\* a binding loop without its else branch: bare tables keep their engine
BindTablesWrappedOnly(ts, elements, engine) ==
    [i \in DOMAIN ts |->
        IF \E j \in DOMAIN elements :
              elements[j].kind = "TableConfig" /\ elements[j].table_class = i
        THEN [ts[i] EXCEPT !.db = engine] ELSE ts[i]]

\* lines 151-155
BindTables(ts, elements, engine) ==
    [i \in DOMAIN ts |->
        IF \E j \in DOMAIN elements : TableOf(elements[j]) = i
        THEN [ts[i] EXCEPT !.db = engine] ELSE ts[i]]

----------------------------------------------------------------------------
(* Initial states: the process is about to run main(); config.yaml has     *)
(* been loaded.  Three families of inputs: every environment with a small  *)
(* configuration; every naming of tables and keys with a few options       *)
(* records; every options record for one table.                            *)

OrdersConfig ==
    (<<"O", "r">> :> Options([visible_columns |-> ListVal(<<"id">>),
                              visible_filters |-> None,
                              rich_text_columns |-> None,
                              link_column |-> None,
                              menu_group |-> None]))

OrdersSchema == <<[tablename |-> <<"o", "r">>, columns |-> <<"id", "total">>]>>

ProcessStart ==
    /\ pc = "create_db_tables"
    /\ startups = 1
    /\ authDb = [a \in AuthTables |-> "sqlite"]
    /\ db = "unset"
    /\ tables = <<>>
    /\ found_tables = <<>>
    /\ admin_tables = <<>>
    /\ app = None
    /\ error = NoError
    /\ user_exists = FALSE

InitEnvironments ==
    /\ env \in [present : SUBSET EnvVars, port_numeric : BOOLEAN]
    /\ users \in InitialUsers
    /\ BASE_CONFIG \in {None, DictVal(OrdersConfig)}
    /\ schema = OrdersSchema

InitNames ==
    /\ env = FullEnv
    /\ users = <<EarlierUser>>
    /\ BASE_CONFIG \in {None} \cup
          {DictVal(c) : c \in ConfigsOver(ConfigKeyUniverse, SimpleOptions)}
    /\ schema \in SchemasOver(TableNameUniverse, {<<>>, <<"id", "total">>})

InitOptions ==
    /\ env = FullEnv
    /\ users = <<EarlierUser>>
    /\ BASE_CONFIG \in {DictVal(<<"O", "r">> :> o) : o \in AllOptions}
    /\ schema \in SchemasOver({<<"o", "r">>}, ColumnSeqs)

Init ==
    /\ ProcessStart
    /\ InitEnvironments \/ InitNames \/ InitOptions
    /\ auth_schema \in {{}, AuthTables}
    /\ users # <<>> => auth_schema = AuthTables

----------------------------------------------------------------------------
(* main(), one action per step between awaits and per loop iteration *)

Crash(e) ==
    /\ pc' = "crashed"
    /\ error' = e

\* lines 44-47
CreateDbTables ==
    /\ pc = "create_db_tables"
    /\ auth_schema' = auth_schema \cup AuthTables
    /\ pc' = "check_user"
    /\ UNCHANGED <<startups, env, users, authDb, BASE_CONFIG, schema, db, tables,
                   found_tables, admin_tables, app, error, user_exists>>

\* line 49
CheckUser ==
    /\ pc = "check_user"
    /\ IF "EMAIL" \notin env.present
       THEN /\ Crash(Raise("KeyError", "EMAIL", "check_user"))
            /\ UNCHANGED user_exists
       ELSE /\ user_exists' = UserExists(users, EnvValue["EMAIL"])
            /\ pc' = IF user_exists' THEN "build_engine" ELSE "create_user"
            /\ UNCHANGED error
    /\ UNCHANGED <<startups, env, users, auth_schema, authDb, BASE_CONFIG, schema,
                   db, tables, found_tables, admin_tables, app>>

\* lines 50-58
CreateUser ==
    /\ pc = "create_user"
    /\ LET missing == Missing(AdminEnvReads, env.present) IN
       IF missing # <<>>
       THEN /\ Crash(Raise("KeyError", missing[1], "create_user"))
            /\ UNCHANGED users
       ELSE /\ users' = Append(users, NewAdminUser)
            /\ pc' = "build_engine"
            /\ UNCHANGED error
    /\ UNCHANGED <<startups, env, auth_schema, authDb, BASE_CONFIG, schema, db,
                   tables, found_tables, admin_tables, app, user_exists>>

\* lines 60-69
BuildEngine ==
    /\ pc = "build_engine"
    /\ LET missing == Missing(EngineEnvReads, env.present) IN
       IF missing # <<>>
       THEN /\ Crash(Raise("KeyError", missing[1], "build_engine"))
            /\ UNCHANGED db
       ELSE IF ~env.port_numeric
       THEN /\ Crash(Raise("ValueError", "DB_PORT", "build_engine"))
            /\ UNCHANGED db
       ELSE /\ db' = "postgres"
            /\ pc' = "reflect"
            /\ UNCHANGED error
    /\ UNCHANGED <<startups, env, users, auth_schema, authDb, BASE_CONFIG, schema,
                   tables, found_tables, admin_tables, app, user_exists>>

\* lines 71-72: the reflected classes are not yet bound to an engine
Reflect ==
    /\ pc = "reflect"
    /\ tables' = [i \in DOMAIN schema |->
                    [tablename |-> schema[i].tablename,
                     columns |-> schema[i].columns, db |-> "unset"]]
    /\ pc' = "resolve"
    /\ UNCHANGED <<startups, env, users, auth_schema, authDb, BASE_CONFIG, schema,
                   db, found_tables, admin_tables, app, error, user_exists>>

\* lines 75-82 and 148-149
Resolve ==
    /\ pc = "resolve"
    /\ IF BASE_CONFIG # None
       THEN /\ found_tables' = FoundTables(BASE_CONFIG.val, tables)
            /\ admin_tables' = <<>>
            /\ pc' = "loop"
       ELSE /\ admin_tables' = PassThrough(tables)
            /\ found_tables' = <<>>
            /\ pc' = "bind_db"
    /\ UNCHANGED <<startups, env, users, auth_schema, authDb, BASE_CONFIG, schema,
                   db, tables, app, error, user_exists>>

\* lines 83-147: one iteration of the loop, or its end
LoopStep ==
    /\ pc = "loop"
    /\ IF found_tables = <<>>
       THEN /\ pc' = "bind_db"
            /\ UNCHANGED <<found_tables, admin_tables, error>>
       ELSE LET r == ResolveTable(BASE_CONFIG.val, tables, Head(found_tables)) IN
            IF r.error # NoError
            THEN /\ Crash(r.error)
                 /\ UNCHANGED <<found_tables, admin_tables>>
            ELSE /\ admin_tables' = Append(admin_tables, r.config)
                 /\ found_tables' = Tail(found_tables)
                 /\ UNCHANGED <<pc, error>>
    /\ UNCHANGED <<startups, env, users, auth_schema, authDb, BASE_CONFIG, schema,
                   db, tables, app, user_exists>>

\* lines 151-155
BindDb ==
    /\ pc = "bind_db"
    /\ tables' = BindTables(tables, admin_tables, db)
    /\ pc' = "create_admin"
    /\ UNCHANGED <<startups, env, users, auth_schema, authDb, BASE_CONFIG, schema,
                   db, found_tables, admin_tables, app, error, user_exists>>

\* lines 157-174
CreateAdmin ==
    /\ pc = "create_admin"
    /\ app' = ListVal(admin_tables)
    /\ pc' = "serve"
    /\ UNCHANGED <<startups, env, users, auth_schema, authDb, BASE_CONFIG, schema,
                   db, tables, found_tables, admin_tables, error, user_exists>>

\* lines 176-181
Serve ==
    /\ pc = "serve"
    /\ pc' = "serving"
    /\ UNCHANGED <<startups, env, users, auth_schema, authDb, BASE_CONFIG, schema,
                   db, tables, found_tables, admin_tables, app, error, user_exists>>

\* lines 184-185 run again: the process ended (an exception, or the server
\* was stopped) and is started once more on the same databases and files
Restart ==
    /\ pc \in {"crashed", "serving"}
    /\ startups < MaxStartups
    /\ startups' = startups + 1
    /\ pc' = "create_db_tables"
    /\ db' = "unset"
    /\ tables' = <<>>
    /\ found_tables' = <<>>
    /\ admin_tables' = <<>>
    /\ app' = None
    /\ error' = NoError
    /\ user_exists' = FALSE
    /\ UNCHANGED <<env, users, auth_schema, authDb, BASE_CONFIG, schema>>

Next ==
    \/ CreateDbTables
    \/ CheckUser
    \/ CreateUser
    \/ BuildEngine
    \/ Reflect
    \/ Resolve
    \/ LoopStep
    \/ BindDb
    \/ CreateAdmin
    \/ Serve
    \/ Restart

Spec == Init /\ [][Next]_vars

----------------------------------------------------------------------------
(* Vocabulary of the properties *)

Configured == BASE_CONFIG # None

ListFields == {"visible_columns", "visible_filters", "rich_text_columns"}

\* the resolver (lines 75-149) has produced admin_tables
ResolverReturned == pc \in {"bind_db", "create_admin", "serve", "serving"}

\* an exception left the resolver and ended main()
ResolverRaised == pc = "crashed" /\ error.at \in OptionKeys

AtServe == pc \in {"serve", "serving"}

RequestedNames == {Lower(k) : k \in DOMAIN BASE_CONFIG.val}

\* the options record the loop uses for table t (line 84 and the subscripts)
RecordOf(t) == BASE_CONFIG.val[Capitalize(t.tablename)]

Position(cols, c) == CHOOSE i \in DOMAIN cols : cols[i] = c

EmailCount(rows) ==
    Cardinality({i \in DOMAIN rows : rows[i].email = EnvValue["EMAIL"]})

----------------------------------------------------------------------------
(* Properties *)

\* C1: resolution of the table configuration never raises: no lookup error
\* leaves the resolver, whatever the configured and the discovered names.
C1_NoLookupErrorPropagates == ~ResolverRaised

\* C2: with a configuration, every discovered table whose name equals a
\* configured key case-insensitively is retained and has a descriptor in the
\* output of the resolver.
C2_CaseInsensitiveMatchRetained ==
    (Configured /\ (ResolverReturned \/ ResolverRaised)) =>
        \A i \in DOMAIN tables :
            (\E k \in DOMAIN BASE_CONFIG.val : Lower(k) = Lower(tables[i].tablename))
            => /\ ResolverReturned
               /\ \E j \in DOMAIN admin_tables :
                      /\ admin_tables[j].kind = "TableConfig"
                      /\ admin_tables[j].table_class = i

\* C3: in every descriptor, a list field whose key the table's options record
\* omits is None, whatever the columns of the table, and resolving a table
\* whose options record exists raises nothing.
C3_OmittedKeyIsNone ==
    Configured =>
        /\ \A j \in DOMAIN admin_tables :
              LET d == admin_tables[j]
                  t == tables[d.table_class]
              IN  \A f \in ListFields : f \notin DOMAIN RecordOf(t) => d[f] = None
        /\ ResolverRaised => error.key \notin DOMAIN BASE_CONFIG.val

\* C4: in every descriptor, a list field for which the options record gives a
\* list holds columns of the table that the list names, each named column of
\* the table exactly once, in the order of the table's columns (so the empty
\* sequence when nothing matches); the only exception that leaves the loop is
\* the KeyError of an options record that is not there.
C4_ListFieldIsNativeOrderSubsequence ==
    Configured =>
        /\ \A j \in DOMAIN admin_tables :
              LET d == admin_tables[j]
                  t == tables[d.table_class]
              IN  \A f \in ListFields \cap DOMAIN RecordOf(t) :
                    /\ d[f].tag = "list"
                    /\ LET s == d[f].val
                           named == Range(RecordOf(t)[f].val)
                       IN  /\ \A i \in DOMAIN s :
                                  s[i] \in Range(t.columns) /\ s[i] \in named
                           /\ \A c \in Range(t.columns) \cap named :
                                  Cardinality({i \in DOMAIN s : s[i] = c}) = 1
                           /\ \A i, k \in DOMAIN s :
                                  i < k => Position(t.columns, s[i])
                                             < Position(t.columns, s[k])
        /\ ResolverRaised =>
              error.type = "KeyError" /\ error.key \notin DOMAIN BASE_CONFIG.val

\* a descriptor whose configured list [total, id] resolved to [id, total]
C4_Witness ==
    /\ Configured
    /\ \E j \in DOMAIN admin_tables :
          LET d == admin_tables[j]
              t == tables[d.table_class]
          IN  /\ t.columns = <<"id", "total">>
              /\ Get(RecordOf(t), "visible_columns") = ListVal(<<"total", "id">>)
              /\ d.visible_columns = ListVal(<<"id", "total">>)

\* C5: in every descriptor, link_column is None when the options record has
\* no link_column or names no column of the table, and otherwise is the first
\* column of the table with that name; the lookup of the link column raises
\* nothing when the options record exists.
C5_LinkColumnOrNone ==
    Configured =>
        /\ \A j \in DOMAIN admin_tables :
              LET d == admin_tables[j]
                  t == tables[d.table_class]
                  v == Get(RecordOf(t), "link_column")
                  hits == {i \in DOMAIN t.columns : StrVal(t.columns[i]) = v}
              IN  IF hits = {}
                  THEN d.link_column = None
                  ELSE \E i \in hits :
                          /\ \A k \in hits : i <= k
                          /\ d.link_column = ColVal(t.columns[i])
        /\ ResolverRaised =>
              error.type # "IndexError" /\ error.key \notin DOMAIN BASE_CONFIG.val

\* a descriptor whose configured link column names no column of the table
C5_Witness ==
    /\ Configured
    /\ \E j \in DOMAIN admin_tables :
          LET d == admin_tables[j]
              t == tables[d.table_class]
          IN  /\ t.columns = <<"id">>
              /\ Get(RecordOf(t), "link_column") = StrVal("total")
              /\ d.link_column = None

\* C6, as claimed: main() reaches serve() only if all eight environment
\* variables are present.
C6_ServeNeedsAllEight == AtServe => env.present = EnvVars

\* C6, amended: main() reaches serve() only if EMAIL and the five DB_
\* variables are present, and USERNAME and PASSWORD too unless a user with
\* that email existed when this start queried the auth database.
C6_ServeNeedsEnvironmentRead ==
    AtServe =>
        /\ {"EMAIL", "DB_NAME", "DB_USER", "DB_PASSWORD", "DB_HOST", "DB_PORT"}
              \subseteq env.present
        /\ ~user_exists => {"USERNAME", "PASSWORD"} \subseteq env.present

\* the server runs after a start that created the admin user
C6_Witness == pc = "serving" /\ ~user_exists /\ EmailCount(users) = 1

\* C7: when admin_tables is handed to create_admin, every table in it, bare
\* or inside a TableConfig, is bound to the Postgres engine, and the three
\* auth tables are bound to the SQLite engine.
C7_TablesBoundToApplicationEngine ==
    pc \in {"create_admin", "serve", "serving"} =>
        /\ \A j \in DOMAIN admin_tables :
              LET e == admin_tables[j]
                  h == IF e.kind = "TableConfig" THEN e.table_class ELSE e.table
              IN  tables[h].db = "postgres"
        /\ \A a \in AuthTables : authDb[a] = "sqlite"

\* two bare tables are about to be handed to create_admin
C7_Witness ==
    /\ pc = "create_admin"
    /\ ~Configured
    /\ Len(admin_tables) >= 2

\* C8: without a configuration the resolver returns the reflected tables
\* themselves: as many, in the same order, none wrapped in a TableConfig.
C8_PassThroughWithoutConfig ==
    (~Configured /\ ResolverReturned) =>
        /\ Len(admin_tables) = Len(schema)
        /\ \A i \in DOMAIN admin_tables :
              /\ admin_tables[i].kind = "Table"
              /\ admin_tables[i].table = i
              /\ tables[i].tablename = schema[i].tablename
              /\ tables[i].columns = schema[i].columns

\* the resolver has returned two reflected tables without a configuration
C8_Witness ==
    /\ ~Configured
    /\ pc = "bind_db"
    /\ Len(admin_tables) >= 2

\* C9: with a configuration, every descriptor is for a reflected table whose
\* name is in the lower-cased set of configured names, so every other table
\* is left out; a configured name that matches no table gives no descriptor
\* and no error: an error is about a reflected table that is in that set.
C9_OnlyRequestedTables ==
    Configured =>
        /\ \A j \in DOMAIN admin_tables :
              /\ admin_tables[j].kind = "TableConfig"
              /\ admin_tables[j].table_class \in DOMAIN tables
              /\ tables[admin_tables[j].table_class].tablename \in RequestedNames
        /\ ResolverReturned =>
              \A i \in DOMAIN tables :
                  tables[i].tablename \notin RequestedNames =>
                      \A j \in DOMAIN admin_tables : admin_tables[j].table_class # i
        /\ ResolverRaised =>
              \E i \in DOMAIN tables :
                  /\ tables[i].tablename \in RequestedNames
                  /\ error.key = Capitalize(tables[i].tablename)

\* one of two tables is retained, and one configured name matches no table
C9_Witness ==
    /\ Configured
    /\ ResolverReturned
    /\ Len(tables) = 2
    /\ Len(admin_tables) = 1
    /\ \E k \in DOMAIN BASE_CONFIG.val :
          \A i \in DOMAIN tables : tables[i].tablename # Lower(k)

\* C10: over any sequence of starts on the same auth database, a step changes
\* the user table only by appending the admin user of the environment when
\* no user has that email, and at most one user ever has that email.
C10_AdminCreatedAtMostOnce ==
    /\ [](EmailCount(users) <= 1)
    /\ [][users' # users =>
            /\ EmailCount(users) = 0
            /\ users' = Append(users, NewAdminUser)]_vars

\* a second start found the admin user that the first start created
C10_Witness ==
    /\ startups = 2
    /\ pc = "build_engine"
    /\ user_exists
    /\ users = <<NewAdminUser>>

====
